---- MODULE Spec2Model ----
(***************************************************************************)
(* Client-side view-state managers of the blog:                            *)
(*   - FilterableList (src/src/components/SearchWrapper.tsx, 59-235):      *)
(*     tag filter + paginator over a fixed entry list;                     *)
(*   - SearchModal (src/unnamed/part_005, 92-373) behind SearchWrapper     *)
(*     (src/src/components/SearchWrapper.tsx, 12-40): fuzzy-search         *)
(*     surface with keyboard navigation.                                   *)
(* and, beside them,                                                       *)
(*   - the view counter endpoint (src/src/pages/api/views/[slug].ts);      *)
(*   - the pure helpers readingTime, truncateDescription, getTagIcon       *)
(*     (src/src/lib/utils.ts, src/src/lib/utils.test.ts) and               *)
(*     highlightMatches (src/unnamed/part_005, 56-90);                     *)
(*   - the copy button of code blocks (src/public/js/copy.test.ts,         *)
(*     362-430).                                                           *)
(* The components own disjoint state; each has its own specification over  *)
(* the variables of this module.                                           *)
(***************************************************************************)
EXTENDS Integers, Sequences, FiniteSets, TLC

VARIABLES
  \* FilterableList
  data,          \* props.data: the full entry list (immutable)
  itemsPerPage,  \* props.itemsPerPage (default ITEMS_PER_PAGE)
  filter,        \* signal filter: a JS Set, kept in insertion order
  items,         \* signal items: the filtered entries
  currentPage,   \* signal currentPage
  last,          \* the last event handled by the list, with the page its
                 \* handler read (a page-number click reads none: the page set)
  \* SearchWrapper / SearchModal
  shouldLoad,    \* SearchWrapper signal shouldLoad
  mounted,       \* the lazily loaded SearchModal has mounted
  wrapperLive,   \* the SearchWrapper instance is mounted and not torn down
  listeners,     \* how many listeners of each kind window / document hold
  isOpen,        \* signal isOpen
  query,         \* signal query: a sequence of characters
  selectedIndex, \* signal selectedIndex: a number, possibly NaN
  fuseResults,   \* memo fuseResults: the ranked entries of the current query
  location,      \* window.location.href: the last navigation target, or NoHref
  lastS,         \* the last event handled by the search surface
  \* view counter endpoint
  kvStore,       \* the KV store: the value under "views:<slug>", or KvNull
  reqs,          \* the requests: method, slug, position, response
  kvOps,         \* how many calls of kv.get / kv.incr were issued
  \* pure helpers
  call,          \* the last call of a helper: function, arguments, result
  \* copy button
  codeBlocks,    \* per pre element: its wrappers, innermost first, each
                 \* holding the state of its button
  clipboard,     \* the text last passed to navigator.clipboard.writeText
  initRuns,      \* how many times the script body has run
  clicks,        \* how many clicks were made on copy buttons
  lastC          \* the last event of the copy buttons: the button it was
                 \* about and the timers that button had pending before it

listVars == <<data, itemsPerPage, filter, items, currentPage, last>>

searchVars == <<shouldLoad, mounted, wrapperLive, listeners, isOpen, query,
                selectedIndex, fuseResults, location, lastS>>

viewsVars == <<kvStore, reqs, kvOps>>

copyVars == <<codeBlocks, clipboard, initRuns, clicks, lastC>>

otherVars == <<viewsVars, call, copyVars>>

vars == <<listVars, searchVars, otherVars>>

----------------------------------------------------------------------------
(* Generic helpers *)

Range(s) == {s[i] : i \in 1..Len(s)}

Min(a, b) == IF a <= b THEN a ELSE b

Max(a, b) == IF a >= b THEN a ELSE b

\* All sequences over S of length 0..n
SeqsUpTo(S, n) == UNION {[1..k -> S] : k \in 0..n}

\* Array.prototype.slice(from, to) for 0 <= from <= to, on a 0-based array
\* held as a 1-based sequence: both ends are clamped to the length.
Slice(s, from, to) ==
  LET lo == Min(from, Len(s))
      hi == Min(to, Len(s))
  IN  [i \in 1..(hi - lo) |-> s[lo + i]]

\* Math.ceil(a / b) for integers a >= 0, b >= 1
CeilDiv(a, b) == (a + b - 1) \div b

\* String.prototype.toLowerCase on the tag alphabet
toLowerCase(s) ==
  CASE s = "X" -> "x"
    [] s = "Y" -> "y"
    [] OTHER -> s

----------------------------------------------------------------------------
(* View counter, helpers, copy button: inputs and the state before any event *)

\* the slugs requested; MissingSlug is params.slug when the route has none
Slugs == {"a", "b"}

MissingSlug == ""

\* kv.get of a key that was never set: null
KvNull == -1

\* how many requests are made
MaxRequests == 3

\* the store when the first request arrives: "a" was never viewed
InitialViews == [s \in Slugs |-> IF s = "a" THEN KvNull ELSE 2]

NoResponse == [status |-> 0, slug |-> "", views |-> KvNull, error |-> ""]

IdleRequest ==
  [method |-> "", slug |-> "", pc |-> "idle", response |-> NoResponse]

ViewsInit ==
  /\ kvStore = InitialViews
  /\ reqs = [r \in 1..MaxRequests |-> IdleRequest]
  /\ kvOps = 0

\* no helper was called yet
PureInit == call = [fn |-> "none"]

\* the pre elements with a code child on the page
NumCodeBlocks == 2

\* codeBlock.innerText of the b-th block
codeText(b) == <<"code", b>>

NoClipboard == <<"", 0>>

NoClick == [op |-> "none", block |-> 0, wrapper |-> 0, timers |-> 0]

\* the page as served: no wrapper, no button
CopyInit ==
  /\ codeBlocks = [b \in 1..NumCodeBlocks |-> <<>>]
  /\ clipboard = NoClipboard
  /\ initRuns = 0
  /\ clicks = 0
  /\ lastC = NoClick

OtherInit == ViewsInit /\ PureInit /\ CopyInit

----------------------------------------------------------------------------
(* FilterableList: bounds and inputs *)

\* default page size
ITEMS_PER_PAGE == 6

\* longest entry list
MaxEntries == 7

\* the tag lists an entry may carry (case varies, order matters not)
EntryTagLists == { <<"x", "y">>, <<"x">>, <<"Y">> }

\* props.tags: the tags offered as filter buttons
tags == <<"X", "y">>

\* the page sizes the component is instantiated with
PageSizes == {1, ITEMS_PER_PAGE}

\* an entry list: slugs are unique (the position), tags drawn from EntryTagLists
MkData(tl) == [i \in 1..Len(tl) |-> [slug |-> i, tags |-> tl[i]]]

DataLists == {MkData(tl) : tl \in SeqsUpTo(EntryTagLists, MaxEntries)}

----------------------------------------------------------------------------
(* FilterableList: the code *)

\* the predicate of data.filter(...) in the filter effect
entryPasses(entry, f) ==
  \A k \in 1..Len(f) :
    \E j \in 1..Len(entry.tags) :
      toLowerCase(entry.tags[j]) = toLowerCase(f[k])

\* mutant: a selected tag list passes when ANY of its tags is on the entry
filterEntriesAnyTag(d, f) ==
  SelectSeq(d, LAMBDA entry :
    f = <<>> \/ \E k \in 1..Len(f) : \E j \in 1..Len(entry.tags) :
                  toLowerCase(entry.tags[j]) = toLowerCase(f[k]))

\* mutant: the tags are compared as written, without toLowerCase
filterEntriesCaseSensitive(d, f) ==
  SelectSeq(d, LAMBDA entry :
    \A k \in 1..Len(f) : \E j \in 1..Len(entry.tags) : entry.tags[j] = f[k])

\* data.filter((entry) => Array.from(filter()).every(... some ...))
filterEntries(d, f) == SelectSeq(d, LAMBDA entry : entryPasses(entry, f))

\* mutant: the effect leaves the page where it was
effectPageKeep(p) == p

\* the page the effect stores after a recompute
effectPage(p) == 1

\* mutant: a present tag is kept instead of removed
toggleTagSetAddOnly(prev, tag) ==
  IF tag \in Range(prev) THEN prev ELSE Append(prev, tag)

\* the new Set toggleTag builds from prev
toggleTagSet(prev, tag) ==
  IF tag \in Range(prev)
    THEN SelectSeq(prev, LAMBDA t : t # tag)
    ELSE Append(prev, tag)

\* mutant: Math.floor for Math.ceil
totalPagesFloor(its, size) == Len(its) \div size

\* memo totalPages
totalPagesOf(its, size) == CeilDiv(Len(its), size)

totalPages == totalPagesOf(items, itemsPerPage)

\* mutant: the slice starts one page late
pageSliceOffByOne(its, page, size) ==
  LET start == page * size
  IN  Slice(its, start, start + size)

\* memo paginatedItems
pageSlice(its, page, size) ==
  LET start == (page - 1) * size
  IN  Slice(its, start, start + size)

paginatedItems == pageSlice(items, currentPage, itemsPerPage)

\* memos canGoPrev / canGoNext
canGoPrev == currentPage > 1

canGoNext == currentPage < totalPages

\* <Show when={items().length > 0}>: the list (else the "no match" fallback)
listShown == Len(items) > 0

\* <Show when={totalPages() > 1}> nested in the list
paginationShown == listShown /\ totalPages > 1

\* mutant: Next without the clamp to totalPages
nextPageOfUnclamped(p, total) == p + 1

\* the updaters of the Previous / Next buttons
prevPageOf(p) == Max(1, p - 1)

nextPageOf(p, total) == Min(total, p + 1)

\* The filter effect, run after every write of the filter signal (a new Set
\* object never equals the old one, so every write notifies).
RunFilterEffect(f) ==
  /\ items' = filterEntries(data, f)
  /\ currentPage' = effectPage(currentPage)

----------------------------------------------------------------------------
(* SearchModal: bounds and inputs *)

\* number of searchable entries
NumSearchEntries == 3

\* longest query typed
MaxQueryLen == 2

\* the characters of a query
Alphabet == {"a"}

Queries == SeqsUpTo(Alphabet, MaxQueryLen)

\* props.data of the modal: slugs 1..NumSearchEntries, posts and projects
searchData ==
  [i \in 1..NumSearchEntries |->
     [slug |-> i, collection |-> IF i % 2 = 1 THEN "blog" ELSE "projects"]]

\* What fuse.search may return: the entries that match, each once, in rank
\* order.  The fuzzy matcher is a library; any ranking of any subset of the
\* data is a possible answer.
Rankings ==
  {r \in SeqsUpTo(Range(searchData), NumSearchEntries) :
     \A i, j \in 1..Len(r) : i # j => r[i] # r[j]}

\* the value of selectedIndex after x % 0
NaN == -1000

\* window.location.href before any navigation of the modal
NoHref == <<"about:page", 0>>

----------------------------------------------------------------------------
(* SearchModal: the code *)

\* the JS remainder a % n on numbers: NaN for a NaN operand or n = 0, else
\* the remainder with the sign of the dividend
jsRem(a, n) ==
  IF a = NaN \/ n = NaN \/ n = 0 THEN NaN
  ELSE IF a >= 0 THEN a % n
  ELSE 0 - ((0 - a) % n)

\* a + b on numbers
jsAdd(a, b) == IF a = NaN \/ b = NaN THEN NaN ELSE a + b

\* mutant: the search starts at one character
fuseResultsOfMin1(q, found) == IF Len(q) < 1 THEN <<>> ELSE found

\* memo fuseResults: `found` stands for fuse.search(query())
fuseResultsOf(q, found) == IF Len(q) < 2 THEN <<>> ELSE found

\* memo results
results == fuseResults

\* the category of a result in groupedResults
categoryOf(entry) == IF entry.collection = "blog" THEN "Posts" ELSE "Projects"

\* one turn of the loop of groupedResults: create the category on its first
\* result, then push the result
groupPush(groups, result) ==
  LET category == categoryOf(result)
      g1 == IF \E k \in 1..Len(groups) : groups[k].category = category
              THEN groups
              ELSE Append(groups, [category |-> category, items |-> <<>>])
  IN  [k \in 1..Len(g1) |->
         IF g1[k].category = category
           THEN [g1[k] EXCEPT !.items = Append(@, result)]
           ELSE g1[k]]

\* memo groupedResults as Object.entries sees it: the categories in order of
\* first insertion, each with its results in rank order
RECURSIVE groupedOf(_)
groupedOf(rs) ==
  IF rs = <<>> THEN <<>>
  ELSE groupPush(groupedOf(SubSeq(rs, 1, Len(rs) - 1)), rs[Len(rs)])

groupedResults == groupedOf(results)

\* mutant: the offset advances by one per category, not by its size
offsetOfPerCategory(groups, k) == IF k <= 1 THEN 0 ELSE k - 1

\* memo categoryOffsets: the offset of the k-th category
RECURSIVE offsetOf(_, _)
offsetOf(groups, k) ==
  IF k <= 1 THEN 0 ELSE offsetOf(groups, k - 1) + Len(groups[k - 1].items)

\* globalIndex of the localIndex-th (0-based) button of the k-th category
globalIndexOf(groups, k, localIndex) == offsetOf(groups, k) + localIndex

\* the buttons rendered for the results: [entry, globalIndex]
renderedButtons(groups) ==
  UNION {{[entry |-> groups[k].items[l],
           globalIndex |-> globalIndexOf(groups, k, l - 1)] :
            l \in 1..Len(groups[k].items)} : k \in 1..Len(groups)}

\* the href navigateToResult assigns
hrefOf(entry) ==
  <<IF entry.collection = "blog" THEN "/blog" ELSE "/projects", entry.slug>>

\* mutant: ArrowUp without "+ totalResults"
arrowUpIndexNoWrap(prev, totalResults) == jsRem(jsAdd(prev, -1), totalResults)

\* the updaters of ArrowDown / ArrowUp
arrowDownIndex(prev, totalResults) == jsRem(jsAdd(prev, 1), totalResults)

arrowUpIndex(prev, totalResults) ==
  jsRem(jsAdd(jsAdd(prev, -1), totalResults), totalResults)

\* results()[selectedIndex()]: the entry, or undefined (here <<>>)
resultAt(rs, idx) ==
  IF idx # NaN /\ idx >= 0 /\ idx < Len(rs) THEN <<rs[idx + 1]>> ELSE <<>>

\* the nested <Show>s of the result pane
viewState ==
  IF ~(mounted /\ isOpen) THEN "closed"
  ELSE IF Len(query) >= 2
    THEN IF Len(results) > 0 THEN "results" ELSE "noResults"
    ELSE "prompt"

----------------------------------------------------------------------------
(* FilterableList: initial state and events *)

\* the list after mount: the effect has run once
ListInitWith(d, size) ==
  /\ data = d
  /\ itemsPerPage = size
  /\ filter = <<>>
  /\ items = filterEntries(d, <<>>)
  /\ currentPage = 1
  /\ last = [op |-> "mount", tag |-> "", page |-> 1]

\* addEventListener / removeEventListener of one listener of a kind
addListener(ls, kind) == [ls EXCEPT ![kind] = @ + 1]

removeListener(ls, kind) == [ls EXCEPT ![kind] = IF @ > 0 THEN @ - 1 ELSE 0]

\* no listener registered: window "open-search-modal" of the wrapper
\* (handleOpenSearch) and of the modal (openModal), document "keydown" of the
\* modal (handleGlobalKeyDown)
NoListeners == [wrapperOpen |-> 0, modalOpen |-> 0, keydown |-> 0]

\* the page before the first "open-search-modal": the wrapper is mounted and
\* listens, the modal is not loaded
SearchInit ==
  /\ shouldLoad = FALSE
  /\ mounted = FALSE
  /\ wrapperLive = TRUE
  /\ listeners = addListener(NoListeners, "wrapperOpen")
  /\ isOpen = FALSE
  /\ query = <<>>
  /\ selectedIndex = 0
  /\ fuseResults = <<>>
  /\ location = NoHref
  /\ lastS = [op |-> "init", key |-> "", mod |-> FALSE, target |-> "",
              sel |-> 0, open |-> FALSE]

ListInit ==
  /\ \E d \in DataLists, size \in PageSizes : ListInitWith(d, size)
  /\ SearchInit
  /\ OtherInit

\* click on a filter button
ToggleTag(tag) ==
  /\ filter' = toggleTagSet(filter, tag)
  /\ RunFilterEffect(filter')
  /\ last' = [op |-> "toggleTag", tag |-> tag, page |-> currentPage]
  /\ UNCHANGED <<data, itemsPerPage, searchVars,
                 otherVars>>

\* mutant: the Set is emptied in place, which notifies no effect
ClearFiltersInPlace ==
  /\ ~listShown
  /\ filter' = <<>>
  /\ last' = [op |-> "clearFilters", tag |-> "", page |-> currentPage]
  /\ UNCHANGED <<data, itemsPerPage, items, currentPage, searchVars,
                 otherVars>>

\* click on "Clear filters" (rendered in the fallback of the list)
ClearFilters ==
  /\ ~listShown
  /\ filter' = <<>>
  /\ RunFilterEffect(filter')
  /\ last' = [op |-> "clearFilters", tag |-> "", page |-> currentPage]
  /\ UNCHANGED <<data, itemsPerPage, searchVars,
                 otherVars>>

\* The Previous button calls its handler whenever the controls are rendered;
\* at the boundary the button is disabled and the updater's clamp leaves the
\* page where it is.
PrevPage ==
  /\ paginationShown
  /\ currentPage' = prevPageOf(currentPage)
  /\ last' = [op |-> "prev", tag |-> "", page |-> currentPage]
  /\ UNCHANGED <<data, itemsPerPage, filter, items, searchVars,
                 otherVars>>

NextPage ==
  /\ paginationShown
  /\ currentPage' = nextPageOf(currentPage, totalPages)
  /\ last' = [op |-> "next", tag |-> "", page |-> currentPage]
  /\ UNCHANGED <<data, itemsPerPage, filter, items, searchVars,
                 otherVars>>

\* click on a page-number button: one per page 1..totalPages
GoToPage(page) ==
  /\ paginationShown
  /\ page \in 1..totalPages
  /\ currentPage' = page
  /\ last' = [op |-> "page", tag |-> "", page |-> page]
  /\ UNCHANGED <<data, itemsPerPage, filter, items, searchVars,
                 otherVars>>

ListNext ==
  \/ \E i \in 1..Len(tags) : ToggleTag(tags[i])
  \/ ClearFilters
  \/ PrevPage
  \/ NextPage
  \/ \E page \in 1..MaxEntries : GoToPage(page)

ListSpec == ListInit /\ [][ListNext]_vars

----------------------------------------------------------------------------
(* SearchWrapper / SearchModal: events *)

Keys == {"Escape", "/", "k", "ArrowDown", "ArrowUp", "Enter", "x"}

Targets == {"body", "otherInput", "searchInput"}

Event(op, key, mod, target) ==
  [op |-> op, key |-> key, mod |-> mod, target |-> target,
   sel |-> selectedIndex, open |-> isOpen]

\* setQuery(q): the fuseResults memo is recomputed when the query changes
SetQuery(q, found) ==
  /\ query' = q
  /\ fuseResults' = IF q = query THEN fuseResults ELSE fuseResultsOf(q, found)

\* mutant: no open effect
SetIsOpenNoReset(v) ==
  /\ isOpen' = v
  /\ UNCHANGED <<query, fuseResults, selectedIndex>>

\* mutant: the state is reset when isOpen changes to false as well
SetIsOpenResetOnClose(v) ==
  /\ isOpen' = v
  /\ IF v # isOpen
       THEN SetQuery(<<>>, <<>>) /\ selectedIndex' = 0
       ELSE UNCHANGED <<query, fuseResults, selectedIndex>>

\* setIsOpen(v) followed by the open effect, which runs when isOpen changed
\* to true: setQuery(""), setSelectedIndex(0)
SetIsOpen(v) ==
  /\ isOpen' = v
  /\ IF v /\ ~isOpen
       THEN SetQuery(<<>>, <<>>) /\ selectedIndex' = 0
       ELSE UNCHANGED <<query, fuseResults, selectedIndex>>

openModal == SetIsOpen(TRUE)

closeModal == SetIsOpen(FALSE)

navigateToResult(result) ==
  /\ location' = hrefOf(result)
  /\ closeModal

\* window "open-search-modal": every registered listener runs, the wrapper's
\* handleOpenSearch and, once the modal is mounted, its openModal
DispatchOpenSearch ==
  /\ shouldLoad' = IF listeners.wrapperOpen > 0 THEN TRUE ELSE shouldLoad
  /\ IF listeners.modalOpen > 0
       THEN openModal
       ELSE UNCHANGED <<isOpen, query, fuseResults, selectedIndex>>
  /\ lastS' = Event("openSearchEvent", "", FALSE, "")
  /\ UNCHANGED <<mounted, wrapperLive, listeners, location, listVars,
                 otherVars>>

\* mutant: the modal mounts closed (no initialOpen)
ModalMountClosed ==
  /\ wrapperLive /\ shouldLoad /\ ~mounted
  /\ mounted' = TRUE
  /\ isOpen' = FALSE
  /\ listeners' = addListener(addListener(listeners, "keydown"), "modalOpen")
  /\ lastS' = Event("mount", "", FALSE, "")
  /\ UNCHANGED <<shouldLoad, wrapperLive, query, fuseResults, selectedIndex,
                 location, listVars,
                 otherVars>>

\* the lazy SearchModal resolves and mounts with initialOpen = true: the open
\* effect runs, onMount registers the two listeners of the modal
ModalMount ==
  /\ wrapperLive /\ shouldLoad /\ ~mounted
  /\ mounted' = TRUE
  /\ isOpen' = TRUE
  /\ SetQuery(<<>>, <<>>)
  /\ selectedIndex' = 0
  /\ listeners' = addListener(addListener(listeners, "keydown"), "modalOpen")
  /\ lastS' = Event("mount", "", FALSE, "")
  /\ UNCHANGED <<shouldLoad, wrapperLive, location, listVars,
                 otherVars>>

handleInputKeyDown(key) ==
  LET totalResults == Len(results)
      hit == resultAt(results, selectedIndex)
  IN  IF key = "ArrowDown"
        THEN /\ selectedIndex' = arrowDownIndex(selectedIndex, totalResults)
             /\ UNCHANGED <<isOpen, query, fuseResults, location>>
      ELSE IF key = "ArrowUp"
        THEN /\ selectedIndex' = arrowUpIndex(selectedIndex, totalResults)
             /\ UNCHANGED <<isOpen, query, fuseResults, location>>
      ELSE IF key = "Enter" /\ hit # <<>>
        THEN navigateToResult(hit[1])
      ELSE UNCHANGED <<isOpen, query, fuseResults, selectedIndex, location>>

\* mutant: Ctrl/Cmd+K is guarded by !isOpen() as "/" is
handleGlobalKeyDownOpenOnly(key, mod, target) ==
  IF key = "Escape" /\ isOpen
    THEN closeModal /\ UNCHANGED location
  ELSE IF target = "otherInput"
    THEN UNCHANGED <<isOpen, query, fuseResults, selectedIndex, location>>
  ELSE LET isSlash == key = "/" /\ ~isOpen
           isCmdK == mod /\ key = "k" /\ ~isOpen
       IN  IF isSlash \/ isCmdK
             THEN /\ IF isOpen THEN closeModal ELSE openModal
                  /\ UNCHANGED location
             ELSE UNCHANGED <<isOpen, query, fuseResults, selectedIndex, location>>

\* mutant: the typing-target check comes before the Escape check
handleGlobalKeyDownTargetFirst(key, mod, target) ==
  IF target = "otherInput"
    THEN UNCHANGED <<isOpen, query, fuseResults, selectedIndex, location>>
  ELSE IF key = "Escape" /\ isOpen
    THEN closeModal /\ UNCHANGED location
  ELSE LET isSlash == key = "/" /\ ~isOpen
           isCmdK == mod /\ key = "k"
       IN  IF isSlash \/ isCmdK
             THEN /\ IF isOpen THEN closeModal ELSE openModal
                  /\ UNCHANGED location
             ELSE UNCHANGED <<isOpen, query, fuseResults, selectedIndex, location>>

\* document "keydown" while the modal is mounted
handleGlobalKeyDown(key, mod, target) ==
  IF key = "Escape" /\ isOpen
    THEN closeModal /\ UNCHANGED location
  ELSE IF target = "otherInput"
    THEN UNCHANGED <<isOpen, query, fuseResults, selectedIndex, location>>
  ELSE LET isSlash == key = "/" /\ ~isOpen
           isCmdK == mod /\ key = "k"
       IN  IF isSlash \/ isCmdK
             THEN /\ IF isOpen THEN closeModal ELSE openModal
                  /\ UNCHANGED location
             ELSE UNCHANGED <<isOpen, query, fuseResults, selectedIndex, location>>

\* A keydown on the page.  On the search input the input's handler runs as
\* well as the document's; for the three keys the input's handler acts on,
\* the document's handler changes nothing.  The document's handler runs when
\* it is registered.
KeyDown(key, mod, target) ==
  /\ target = "searchInput" => mounted /\ isOpen
  /\ IF target = "searchInput" /\ key \in {"ArrowDown", "ArrowUp", "Enter"}
       THEN handleInputKeyDown(key)
       ELSE IF listeners.keydown > 0
         THEN handleGlobalKeyDown(key, mod, target)
         ELSE UNCHANGED <<isOpen, query, fuseResults, selectedIndex, location>>
  /\ lastS' = Event("keydown", key, mod, target)
  /\ UNCHANGED <<shouldLoad, mounted, wrapperLive, listeners, listVars,
                 otherVars>>

\* input event on the query field
InputChange(q, found) ==
  /\ mounted /\ isOpen
  /\ SetQuery(q, found)
  /\ selectedIndex' = 0
  /\ lastS' = Event("input", "", FALSE, "searchInput")
  /\ UNCHANGED <<shouldLoad, mounted, wrapperLive, listeners, isOpen, location,
                 listVars,
                 otherVars>>

\* mouseenter on a result button
Hover(button) ==
  /\ viewState = "results"
  /\ button \in renderedButtons(groupedResults)
  /\ selectedIndex' = button.globalIndex
  /\ lastS' = Event("hover", "", FALSE, "")
  /\ UNCHANGED <<shouldLoad, mounted, wrapperLive, listeners, isOpen, query,
                 fuseResults, location, listVars,
                 otherVars>>

\* click on a result button
ClickResult(button) ==
  /\ viewState = "results"
  /\ button \in renderedButtons(groupedResults)
  /\ navigateToResult(button.entry)
  /\ lastS' = Event("clickResult", "", FALSE, "")
  /\ UNCHANGED <<shouldLoad, mounted, wrapperLive, listeners, listVars,
                 otherVars>>

\* click on the backdrop or on the close button
ClickClose(which) ==
  /\ mounted /\ isOpen
  /\ closeModal
  /\ lastS' = Event(which, "", FALSE, "")
  /\ UNCHANGED <<shouldLoad, mounted, wrapperLive, listeners, location, listVars,
                 otherVars>>

AllButtons ==
  [entry : Range(searchData), globalIndex : 0..(NumSearchEntries - 1)]

SearchNext ==
  \/ DispatchOpenSearch
  \/ ModalMount
  \/ \E key \in Keys, mod \in BOOLEAN, target \in Targets : KeyDown(key, mod, target)
  \/ \E q \in Queries, found \in Rankings : InputChange(q, found)
  \/ \E button \in AllButtons : Hover(button)
  \/ \E button \in AllButtons : ClickResult(button)
  \/ \E which \in {"backdrop", "closeButton"} : ClickClose(which)

\* the search surface on a page whose list is not exercised
SearchSpecInit ==
  /\ ListInitWith(<<>>, ITEMS_PER_PAGE)
  /\ SearchInit
  /\ OtherInit

\* one SearchWrapper instance from its mount on
SearchSpec == SearchSpecInit /\ [][SearchNext]_vars

\* the same, the lazy import of the modal resolving once it was requested
SearchFairSpec == SearchSpec /\ WF_vars(ModalMount)

\* mutant: the keydown listener of the modal is not removed
TeardownKeepsKeydown ==
  /\ wrapperLive
  /\ wrapperLive' = FALSE
  /\ mounted' = FALSE
  /\ listeners' =
       LET l1 == removeListener(listeners, "wrapperOpen")
       IN  IF mounted THEN removeListener(l1, "modalOpen") ELSE l1
  /\ lastS' = Event("teardown", "", FALSE, "")
  /\ UNCHANGED <<shouldLoad, isOpen, query, fuseResults, selectedIndex,
                 location, listVars,
                 otherVars>>

\* The island is disposed: onCleanup of the wrapper and, when the modal is
\* mounted, of the modal.  The signals of the disposed instance keep their
\* values; nothing is rendered any more.
Teardown ==
  /\ wrapperLive
  /\ wrapperLive' = FALSE
  /\ mounted' = FALSE
  /\ listeners' =
       LET l1 == removeListener(listeners, "wrapperOpen")
       IN  IF mounted
             THEN removeListener(removeListener(l1, "keydown"), "modalOpen")
             ELSE l1
  /\ lastS' = Event("teardown", "", FALSE, "")
  /\ UNCHANGED <<shouldLoad, isOpen, query, fuseResults, selectedIndex,
                 location, listVars,
                 otherVars>>

\* a new SearchWrapper instance mounts: fresh signals, its listener registered
WrapperMount ==
  /\ ~wrapperLive
  /\ wrapperLive' = TRUE
  /\ shouldLoad' = FALSE
  /\ mounted' = FALSE
  /\ isOpen' = FALSE
  /\ query' = <<>>
  /\ selectedIndex' = 0
  /\ fuseResults' = <<>>
  /\ listeners' = addListener(listeners, "wrapperOpen")
  /\ lastS' = Event("wrapperMount", "", FALSE, "")
  /\ UNCHANGED <<location, listVars,
                 otherVars>>

LifecycleNext ==
  \/ SearchNext
  \/ Teardown
  \/ WrapperMount

\* SearchWrapper instances mounted and torn down one after the other
LifecycleSpec == SearchSpecInit /\ [][LifecycleNext]_vars

----------------------------------------------------------------------------
(* Properties of FilterableList, checked under ListSpec *)

FilterChanges == {"toggleTag", "clearFilters"}

\* the slugs of the entries that carry every selected tag, case-insensitively
PassingSlugs ==
  {i \in 1..Len(data) :
     \A t \in Range(filter) : \E tag \in Range(data[i].tags) :
        toLowerCase(tag) = toLowerCase(t)}

ScenarioData == MkData(<< <<"x", "y">>, <<"x">> >>)

\* C1: the filtered list is exactly the entries of the full list, in their
\* original order, that carry every selected tag case-insensitively; with no
\* tag selected it is the full list; for a(x,y), b(x): {x,y} gives [a] and
\* {x} gives [a,b].
C1_FilterRule ==
  /\ Len(items) = Cardinality(PassingSlugs)
  /\ \A k \in 1..Len(items) :
       /\ items[k].slug \in PassingSlugs
       /\ items[k] = data[items[k].slug]
  /\ \A k \in 1..(Len(items) - 1) : items[k].slug < items[k + 1].slug
  /\ filter = <<>> => items = data
  /\ data = ScenarioData =>
       /\ Range(filter) = {"X", "y"} => items = <<ScenarioData[1]>>
       /\ Range(filter) = {"X"} => items = ScenarioData
  /\ filterEntries(ScenarioData, <<"x", "y">>) = <<ScenarioData[1]>>
  /\ filterEntries(ScenarioData, <<"x">>) = ScenarioData

\* the scenario of C1 after both tags were toggled on
C1_Witness ==
  /\ last.op = "toggleTag"
  /\ data = ScenarioData
  /\ Range(filter) = {"X", "y"}
  /\ Len(items) = 1

\* C3 as stated: after any filter change currentPage <= ceil(filteredCount /
\* pageSize).
C3_PageWithinTotal ==
  last.op \in FilterChanges => currentPage <= CeilDiv(Len(items), itemsPerPage)

\* C3 amended: after any filter change currentPage <= max(1, ceil(filteredCount
\* / pageSize)), and currentPage <= ceil(filteredCount / pageSize) whenever at
\* least one entry matches.
C3_PageWithinTotalOrOne ==
  last.op \in FilterChanges =>
    /\ currentPage <= Max(1, CeilDiv(Len(items), itemsPerPage))
    /\ Len(items) > 0 => currentPage <= CeilDiv(Len(items), itemsPerPage)

\* a toggle on a page that the new filtered list no longer has
C3_Witness ==
  /\ last.op = "toggleTag"
  /\ Len(items) > 0
  /\ last.page > CeilDiv(Len(items), itemsPerPage)

\* C6: toggleTag(t) removes t from the selected tags when present and adds it
\* when absent, leaving the other selected tags alone; a second toggleTag(t)
\* restores the original selected tag set.
C6_ToggleTag ==
  [][\A i \in 1..Len(tags) :
       ToggleTag(tags[i]) =>
         /\ Range(filter') = IF tags[i] \in Range(filter)
                               THEN Range(filter) \ {tags[i]}
                               ELSE Range(filter) \cup {tags[i]}
         /\ Range(toggleTagSet(filter', tags[i])) = Range(filter)]_vars

\* a toggle removed its tag and left another one selected
C6_Witness ==
  /\ last.op = "toggleTag"
  /\ last.tag \notin Range(filter)
  /\ filter # <<>>

\* C7: every change of the selected tags recomputes the filtered list and sets
\* currentPage to 1, whatever the page before.
C7_FilterChangeResetsPage ==
  last.op \in FilterChanges =>
    /\ currentPage = 1
    /\ {items[k].slug : k \in 1..Len(items)} = PassingSlugs

\* a tag was toggled while a later page was shown
C7_Witness ==
  /\ last.op = "toggleTag"
  /\ last.page > 1
  /\ Len(items) < Len(data)

\* pages 1..p of the filtered list, concatenated
RECURSIVE ConcatPages(_)
ConcatPages(p) ==
  IF p <= 0 THEN <<>>
  ELSE ConcatPages(p - 1) \o pageSlice(items, p, itemsPerPage)

\* C8: paginatedItems is filteredItems[(currentPage-1)*size : currentPage*size]:
\* at most size entries, non-empty for each page 1..totalPages, and the pages
\* 1..totalPages concatenated are the filtered list.
C8_Pagination ==
  LET start == (currentPage - 1) * itemsPerPage
  IN  /\ Len(paginatedItems) <= itemsPerPage
      /\ Len(paginatedItems) = Max(0, Min(itemsPerPage, Len(items) - start))
      /\ \A i \in 1..Len(paginatedItems) : paginatedItems[i] = items[start + i]
      /\ \A p \in 1..totalPages : pageSlice(items, p, itemsPerPage) # <<>>
      /\ ConcatPages(totalPages) = items

\* the second page of seven entries under the default page size
C8_Witness ==
  /\ itemsPerPage = ITEMS_PER_PAGE
  /\ last.op \in {"next", "page"}
  /\ currentPage = 2
  /\ Len(paginatedItems) = 1

\* C9: Previous on page 1 and Next on page totalPages leave currentPage alone;
\* the controls are disabled exactly at those boundaries; 1 <= currentPage <=
\* totalPages whenever an entry matches.
C9_PageBoundaries ==
  /\ last.op = "prev" /\ last.page = 1 => currentPage = 1
  /\ last.op = "next" /\ last.page = totalPages => currentPage = last.page
  /\ paginationShown =>
       /\ ~canGoPrev <=> currentPage = 1
       /\ ~canGoNext <=> currentPage = totalPages
  /\ Len(items) > 0 => 1 <= currentPage /\ currentPage <= totalPages

\* Next was requested on the last of several pages
C9_Witness ==
  /\ last.op = "next"
  /\ totalPages >= 2
  /\ last.page = totalPages
  /\ currentPage = totalPages

\* C10: totalPages is ceil(filteredCount / pageSize): 0 and no controls for an
\* empty filtered list, 1 for exactly pageSize entries; the controls render
\* only when totalPages > 1.
C10_TotalPages ==
  LET n == Len(items)
      size == itemsPerPage
  IN  /\ totalPages * size >= n
      /\ (totalPages - 1) * size < n
      /\ n = 0 => totalPages = 0 /\ ~paginationShown
      /\ n = size => totalPages = 1
      /\ paginationShown => totalPages > 1

\* a filter left exactly one page of entries
C10_Witness ==
  /\ last.op = "toggleTag"
  /\ Len(items) = itemsPerPage
  /\ Len(items) < Len(data)
  /\ totalPages = 1

\* C11: clear filters is setFilter of the empty set: after it no tag is
\* selected, the filtered list is the full entry list and currentPage is 1.
C11_ClearFilters ==
  last.op = "clearFilters" =>
    /\ filter = <<>>
    /\ items = data
    /\ Len(paginatedItems) = Min(Len(data), itemsPerPage)
    /\ currentPage = 1

\* filters that matched nothing in a non-empty list were cleared
C11_Witness ==
  /\ last.op = "clearFilters"
  /\ Len(data) > 1
  /\ items = data

\* the entries of the full list that carry every selected tag, in list order
RECURSIVE ExpectedItems(_)
ExpectedItems(n) ==
  IF n = 0 THEN <<>>
  ELSE IF n \in PassingSlugs
    THEN Append(ExpectedItems(n - 1), data[n])
    ELSE ExpectedItems(n - 1)

PageOps == {"prev", "next", "page"}

\* C12: after every event the stored item list is the filter rule applied to
\* the full entry list and the selected tags, and page navigation changes
\* neither the selected tags nor the item list.
C12_ViewConsistent ==
  /\ [](items = ExpectedItems(Len(data)))
  /\ [][last'.op \in PageOps => filter' = filter /\ items' = items]_vars

\* a page was turned on a filtered list
C12_Witness ==
  /\ last.op \in PageOps
  /\ filter # <<>>
  /\ currentPage > 1
  /\ Len(items) < Len(data)

----------------------------------------------------------------------------
(* Properties of SearchModal, checked under SearchSpec *)

PressedInInput(key) ==
  lastS.op = "keydown" /\ lastS.key = key /\ lastS.target = "searchInput"

\* C2 as stated: Enter on a non-empty result list navigates to the entry
\* displayed as selected (global index = selectedIndex) and closes.
C2_EnterOpensDisplayed ==
  PressedInInput("Enter") /\ lastS.open /\ Len(results) > 0 =>
    /\ ~isOpen
    /\ \A b \in renderedButtons(groupedResults) :
         b.globalIndex = selectedIndex => location = hrefOf(b.entry)

\* n presses of ArrowDown from index s
RECURSIVE pressArrowDown(_, _, _)
pressArrowDown(s, n, k) ==
  IF k = 0 THEN s ELSE arrowDownIndex(pressArrowDown(s, n, k - 1), n)

\* C4: with n >= 1 results ArrowDown sets selectedIndex to (selectedIndex + 1)
\* mod n and ArrowUp to (selectedIndex - 1 + n) mod n; n ArrowDowns from 0
\* return to 0, ArrowUp from 0 gives n - 1, ArrowUp undoes ArrowDown.
C4_ArrowsWrap ==
  LET n == Len(results)
  IN  n >= 1 =>
        /\ PressedInInput("ArrowDown") =>
             lastS.sel \in 0..(n - 1) /\ selectedIndex = (lastS.sel + 1) % n
        /\ PressedInInput("ArrowUp") =>
             lastS.sel \in 0..(n - 1) /\ selectedIndex = (lastS.sel - 1 + n) % n
        /\ pressArrowDown(0, n, n) = 0
        /\ arrowUpIndex(0, n) = n - 1
        /\ \A s \in 0..(n - 1) : arrowUpIndex(arrowDownIndex(s, n), n) = s

\* ArrowUp wrapped from the first of several results to the last
C4_Witness ==
  /\ PressedInInput("ArrowUp")
  /\ Len(results) >= 2
  /\ lastS.sel = 0
  /\ selectedIndex = Len(results) - 1

\* C5: a query shorter than 2 has no results and the open surface shows the
\* prompt; the no-results state is shown exactly when the query has at least
\* 2 characters and no result.
C5_ShortQueryPrompt ==
  /\ Len(query) < 2 => results = <<>>
  /\ mounted /\ isOpen /\ Len(query) < 2 => viewState = "prompt"
  /\ mounted /\ isOpen =>
       (viewState = "noResults" <=> Len(query) >= 2 /\ results = <<>>)

\* one character typed into the open surface
C5_Witness ==
  /\ lastS.op = "input"
  /\ isOpen
  /\ Len(query) = 1
  /\ viewState = "prompt"

\* the rank of an entry in rs (each entry occurs once)
rankOf(rs, entry) == CHOOSE i \in 1..Len(rs) : rs[i] = entry

\* the places <<k, l>> of the groups that hold an entry
placesOf(groups, entry) ==
  {pl \in (1..Len(groups)) \X (1..NumSearchEntries) :
     /\ pl[2] <= Len(groups[pl[1]].items)
     /\ groups[pl[1]].items[pl[2]] = entry}

\* how many of rs fall into the categories before the k-th
sizeBefore(groups, rs, k) ==
  Cardinality({i \in 1..Len(rs) :
     \E j \in 1..(k - 1) : groups[j].category = categoryOf(rs[i])})

\* C13: results are grouped into the buckets "Posts" (collection blog) and
\* "Projects" (otherwise); a bucket keeps the rank order of its entries,
\* every result is in exactly one bucket, and the global indices over the
\* concatenation of the buckets (a bucket starts where the buckets before it
\* end) are a bijection onto 0..n-1.
C13_Grouping ==
  LET rs == results
      g == groupedOf(rs)
      n == Len(rs)
      buttons == renderedButtons(g)
  IN  /\ \A k \in 1..Len(g) :
           /\ g[k].category \in {"Posts", "Projects"}
           /\ g[k].items # <<>>
           /\ \A j \in 1..Len(g) : g[j].category = g[k].category => j = k
           /\ \A l \in 1..Len(g[k].items) :
                /\ g[k].category = "Posts" <=> g[k].items[l].collection = "blog"
                /\ g[k].items[l] \in Range(rs)
                /\ [entry |-> g[k].items[l],
                    globalIndex |-> sizeBefore(g, rs, k) + (l - 1)] \in buttons
           /\ \A l1, l2 \in 1..Len(g[k].items) :
                l1 < l2 =>
                  rankOf(rs, g[k].items[l1]) < rankOf(rs, g[k].items[l2])
      /\ \A i \in 1..n : Cardinality(placesOf(g, rs[i])) = 1
      /\ Cardinality(buttons) = n
      /\ {b.globalIndex : b \in buttons} = 0..(n - 1)
      /\ {b.entry : b \in buttons} = Range(rs)

\* a ranking that interleaves the collections is shown: post, project, post
C13_Witness ==
  /\ viewState = "results"
  /\ Len(results) = 3
  /\ Len(groupedResults) = 2
  /\ results[1].collection = "blog"
  /\ results[2].collection # "blog"
  /\ results[3].collection = "blog"

\* the events that open the surface
OpeningOps == {"keydown", "openSearchEvent", "mount"}

\* C14: every step from closed to open (hotkey, open-search event, mount with
\* initialOpen) leaves query empty and selectedIndex 0, whatever they were.
C14_OpenResets ==
  [][~isOpen /\ isOpen' =>
       /\ lastS'.op \in OpeningOps
       /\ query' = <<>>
       /\ selectedIndex' = 0
       /\ results' = <<>>]_vars

\* the hotkey reopened a surface that was closed with a selection below the
\* first result
C14_Witness ==
  /\ mounted /\ isOpen /\ ~lastS.open
  /\ lastS.op = "keydown"
  /\ lastS.sel > 0
  /\ query = <<>>
  /\ selectedIndex = 0

\* the events that close the surface
ClosingOps == {"keydown", "backdrop", "closeButton", "clickResult"}

Pressed(key) == lastS.op = "keydown" /\ lastS.key = key

\* the last event was a press of "/" or of Ctrl/Cmd+"k"
PressedHotkey == Pressed("/") \/ (Pressed("k") /\ lastS.mod)

\* C16 as stated: whenever the surface is not open and the key target is not
\* another input, textarea or contenteditable, "/" or Ctrl/Cmd+"k" opens it.
C16_HotkeyOpens ==
  PressedHotkey /\ ~lastS.open /\ lastS.target # "otherInput" =>
    mounted /\ isOpen

\* the events other than a key press that close the surface
ClickClosingOps == {"backdrop", "closeButton", "clickResult"}

\* C17 as stated: "/" or Ctrl/Cmd+"k" while open leaves the surface open, and
\* it closes only on Escape, a backdrop or close-button click, or navigation.
C17_HotkeyOnlyOpens ==
  /\ PressedHotkey /\ lastS.open => isOpen
  /\ lastS.open /\ ~isOpen =>
       \/ Pressed("Escape")
       \/ Pressed("Enter") /\ lastS.target = "searchInput"
       \/ lastS.op \in ClickClosingOps

\* C17: "/" while open leaves the surface open; Ctrl/Cmd+"k" while open
\* closes it, unless the key target is another input; the surface closes
\* only on Escape, Ctrl/Cmd+"k", a backdrop or close-button click, or
\* navigation.
C17_HotkeyToggles ==
  /\ Pressed("/") /\ lastS.open => isOpen
  /\ Pressed("k") /\ lastS.mod /\ lastS.open =>
       (isOpen <=> lastS.target = "otherInput")
  /\ lastS.open /\ ~isOpen =>
       \/ Pressed("Escape")
       \/ Pressed("k") /\ lastS.mod /\ lastS.target # "otherInput"
       \/ Pressed("Enter") /\ lastS.target = "searchInput"
       \/ lastS.op \in ClickClosingOps

\* Ctrl/Cmd+"k" in the query field closed the surface
C17_Witness ==
  /\ Pressed("k") /\ lastS.mod
  /\ lastS.target = "searchInput"
  /\ lastS.open
  /\ mounted /\ ~isOpen

\* C18: while the surface is open Escape, with the focus anywhere, and a
\* backdrop click close it; Escape while it is closed changes no state.
C18_EscapeCloses ==
  /\ [](lastS.open /\ (Pressed("Escape") \/ lastS.op = "backdrop") => ~isOpen)
  /\ [][lastS'.op = "keydown" /\ lastS'.key = "Escape" /\ ~isOpen =>
         UNCHANGED <<shouldLoad, mounted, listeners, isOpen, query,
                     selectedIndex, fuseResults, location>>]_vars

\* Escape closed the surface while the focus was in another input
C18_Witness ==
  /\ Pressed("Escape")
  /\ lastS.target = "otherInput"
  /\ lastS.open
  /\ mounted /\ ~isOpen

\* the state of the SearchWrapper instance and of its modal
instanceState ==
  <<shouldLoad, mounted, isOpen, query, selectedIndex, fuseResults>>

\* C19: an "open-search-modal" event dispatched while the surface is not open
\* leads to the surface being open (the first one loads the modal, which
\* mounts open; later ones open the mounted modal); dispatched while the
\* surface is open it leaves it open with query and selection unchanged.
C19_OpenSearchEvent ==
  /\ (lastS.op = "openSearchEvent" /\ ~lastS.open) ~> (mounted /\ isOpen)
  /\ [][lastS'.op = "openSearchEvent" /\ isOpen =>
         /\ isOpen'
         /\ UNCHANGED <<query, selectedIndex, fuseResults>>]_vars

\* the modal requested by the first event has mounted open
C19_Witness ==
  /\ lastS.op = "mount"
  /\ shouldLoad /\ mounted /\ isOpen
  /\ query = <<>>
  /\ selectedIndex = 0

\* 1 for a live instance, 0 otherwise
countOf(live) == IF live THEN 1 ELSE 0

\* C20: the listeners registered are exactly those of the live instances
\* (the wrapper's open-search listener; the mounted modal's keydown and
\* open-search listeners), and no event changes the state of an instance
\* that was torn down.
C20_Listeners ==
  /\ [](/\ listeners.wrapperOpen = countOf(wrapperLive)
        /\ listeners.keydown = countOf(mounted)
        /\ listeners.modalOpen = countOf(mounted)
        /\ mounted => wrapperLive)
  /\ [][~wrapperLive /\ ~wrapperLive' =>
         UNCHANGED <<instanceState, listeners, location>>]_vars

\* Escape was pressed after an open surface was torn down
C20_Witness ==
  /\ ~wrapperLive
  /\ Pressed("Escape")
  /\ lastS.open
  /\ isOpen
  /\ listeners = NoListeners

----------------------------------------------------------------------------
(* View counter endpoint: GET and POST of /api/views/[slug] *)

Methods == {"GET", "POST"}

\* kv.get(`views:${slug}`): the stored value, or null
kvGet(store, slug) == store[slug]

\* kv.incr(`views:${slug}`): Redis INCR, one atomic command; a missing key
\* counts as 0
kvIncr(store, slug) ==
  [store EXCEPT ![slug] = (IF @ = KvNull THEN 0 ELSE @) + 1]

\* mutant: no "?? 0"
getViewsOfNoDefault(store, slug) == kvGet(store, slug)

\* (await kv.get(...)) ?? 0
getViewsOf(store, slug) ==
  IF kvGet(store, slug) = KvNull THEN 0 ELSE kvGet(store, slug)

\* new Response(JSON.stringify({ slug, views }), { status: 200 })
okResponse(slug, views) ==
  [status |-> 200, slug |-> slug, views |-> views, error |-> ""]

\* new Response(JSON.stringify({ error }), { status })
errorResponse(status, error) ==
  [status |-> status, slug |-> "", views |-> KvNull, error |-> error]

ViewsFrame == UNCHANGED <<listVars, searchVars, call, copyVars>>

\* the response of request r is sent
respond(r, response) ==
  reqs' = [reqs EXCEPT ![r].pc = "done", ![r].response = response]

\* A request arrives: the handler runs up to its first await.  Without a
\* slug it answers 400 at once.
Receive(r, method, slug) ==
  /\ reqs[r].pc = "idle"
  /\ IF slug = MissingSlug
       THEN reqs' = [reqs EXCEPT ![r] =
              [method |-> method, slug |-> slug, pc |-> "done",
               response |-> errorResponse(400, "Slug is required")]]
       ELSE reqs' = [reqs EXCEPT ![r] =
              [method |-> method, slug |-> slug, pc |-> "awaitKv",
               response |-> NoResponse]]
  /\ UNCHANGED <<kvStore, kvOps>>
  /\ ViewsFrame

\* GET: kv.get resolves
GetViews(r) ==
  /\ reqs[r].pc = "awaitKv" /\ reqs[r].method = "GET"
  /\ kvOps' = kvOps + 1
  /\ respond(r, okResponse(reqs[r].slug, getViewsOf(kvStore, reqs[r].slug)))
  /\ UNCHANGED kvStore
  /\ ViewsFrame

\* GET: kv.get rejects, the catch block answers
GetFails(r) ==
  /\ reqs[r].pc = "awaitKv" /\ reqs[r].method = "GET"
  /\ kvOps' = kvOps + 1
  /\ respond(r, errorResponse(500, "Failed to get views"))
  /\ UNCHANGED kvStore
  /\ ViewsFrame

\* mutant: the count before the increment is returned
PostViewsReturnsOld(r) ==
  /\ reqs[r].pc = "awaitKv" /\ reqs[r].method = "POST"
  /\ kvOps' = kvOps + 1
  /\ kvStore' = kvIncr(kvStore, reqs[r].slug)
  /\ respond(r, okResponse(reqs[r].slug, getViewsOf(kvStore, reqs[r].slug)))
  /\ ViewsFrame

\* POST: kv.incr is executed and resolves with the new value
PostViews(r) ==
  /\ reqs[r].pc = "awaitKv" /\ reqs[r].method = "POST"
  /\ kvOps' = kvOps + 1
  /\ kvStore' = kvIncr(kvStore, reqs[r].slug)
  /\ respond(r, okResponse(reqs[r].slug, kvStore'[reqs[r].slug]))
  /\ ViewsFrame

\* mutant: no try / catch around kv.incr
PostFailsUncaught(r) ==
  /\ reqs[r].pc = "awaitKv" /\ reqs[r].method = "POST"
  /\ kvOps' = kvOps + 1
  /\ reqs' = [reqs EXCEPT ![r].pc = "threw"]
  /\ UNCHANGED kvStore
  /\ ViewsFrame

\* POST: kv.incr rejects before the store executed it, the catch block
\* answers
PostFails(r) ==
  /\ reqs[r].pc = "awaitKv" /\ reqs[r].method = "POST"
  /\ kvOps' = kvOps + 1
  /\ respond(r, errorResponse(500, "Failed to increment views"))
  /\ UNCHANGED kvStore
  /\ ViewsFrame

ViewsNext ==
  \E r \in 1..MaxRequests :
    \/ \E method \in Methods, slug \in Slugs \cup {MissingSlug} :
         Receive(r, method, slug)
    \/ GetViews(r)
    \/ GetFails(r)
    \/ PostViews(r)
    \/ PostFails(r)

ViewsSpecInit ==
  /\ ListInitWith(<<>>, ITEMS_PER_PAGE)
  /\ SearchInit
  /\ OtherInit

\* concurrent requests to the endpoint: their store operations interleave
ViewsSpec == ViewsSpecInit /\ [][ViewsNext]_vars

----------------------------------------------------------------------------
(* Properties of the view counter, checked under ViewsSpec *)

\* the requests answered with a status
Answered(method, status) ==
  {r \in 1..MaxRequests :
     /\ reqs[r].pc = "done"
     /\ reqs[r].method = method
     /\ reqs[r].response.status = status}

\* the successful POSTs of a slug
okPosts(slug) == {r \in Answered("POST", 200) : reqs[r].slug = slug}

\* a stored value as a count
countIn(store, slug) == IF store[slug] = KvNull THEN 0 ELSE store[slug]

\* request r is answered in this step
AnsweredNow(r, method, status) ==
  /\ reqs[r].pc # "done"
  /\ reqs'[r].pc = "done"
  /\ reqs'[r].method = method
  /\ reqs'[r].response.status = status

\* C21: a successful POST adds exactly 1 to the count of its slug and
\* answers {slug, views} with the new count; after n successful POSTs of a
\* slug, however the requests interleave, its count is the initial count
\* plus n, the responses carry distinct counts, and no other slug changed.
C21_PostIncrements ==
  /\ [](\A slug \in Slugs :
         /\ countIn(kvStore, slug) =
              countIn(InitialViews, slug) + Cardinality(okPosts(slug))
         /\ \A r1, r2 \in okPosts(slug) :
              reqs[r1].response.views = reqs[r2].response.views => r1 = r2
         /\ \A r \in okPosts(slug) :
              /\ reqs[r].response.slug = slug
              /\ reqs[r].response.views > countIn(InitialViews, slug)
              /\ reqs[r].response.views <= countIn(kvStore, slug))
  /\ [][\A r \in 1..MaxRequests : AnsweredNow(r, "POST", 200) =>
         /\ countIn(kvStore', reqs[r].slug) = countIn(kvStore, reqs[r].slug) + 1
         /\ reqs'[r].response.views = countIn(kvStore', reqs[r].slug)
         /\ \A other \in Slugs \ {reqs[r].slug} :
              kvStore'[other] = kvStore[other]]_vars

\* two POSTs of the never-viewed slug were answered, the second request
\* before the first
C21_Witness ==
  /\ okPosts("a") = {1, 2}
  /\ reqs[1].response.views = 2
  /\ reqs[2].response.views = 1
  /\ kvStore["a"] = 2
  /\ kvStore["b"] = InitialViews["b"]

\* C22: GET answers {slug, views} with the stored count of the slug, 0 for
\* a slug that was never incremented, and changes no count.
C22_GetReads ==
  /\ [](\A r \in Answered("GET", 200) :
         /\ reqs[r].response.slug = reqs[r].slug
         /\ reqs[r].response.views >= 0
         /\ reqs[r].response.views <= countIn(kvStore, reqs[r].slug)
         /\ okPosts(reqs[r].slug) = {} =>
              reqs[r].response.views = countIn(InitialViews, reqs[r].slug))
  /\ [][\A r \in 1..MaxRequests :
         /\ AnsweredNow(r, "GET", 200) =>
              reqs'[r].response.views = countIn(kvStore, reqs[r].slug)
         /\ reqs'[r].method = "GET" /\ reqs'[r] # reqs[r] =>
              kvStore' = kvStore]_vars

\* GETs of the never-viewed slug and of the viewed one were answered
C22_Witness ==
  /\ \E r \in Answered("GET", 200) :
       /\ reqs[r].slug = "a"
       /\ reqs[r].response.views = 0
       /\ kvStore["a"] = KvNull
  /\ \E r \in Answered("GET", 200) :
       /\ reqs[r].slug = "b"
       /\ reqs[r].response.views = 2

\* C23: GET and POST without a slug answer 400 with an error body and make
\* no call of the store; a failure of the store answers 500 with an error
\* body without views; no request ends in an exception.
C23_Errors ==
  /\ [](/\ \A r \in 1..MaxRequests :
            /\ reqs[r].pc \in {"idle", "awaitKv", "done"}
            /\ reqs[r].pc = "done" =>
                 /\ reqs[r].response.status \in {200, 400, 500}
                 /\ reqs[r].response.status = 400 <=> reqs[r].slug = MissingSlug
                 /\ reqs[r].response.status \in {400, 500} =>
                      /\ reqs[r].response.error # ""
                      /\ reqs[r].response.views = KvNull
        /\ kvOps = Cardinality({r \in 1..MaxRequests :
                       reqs[r].pc = "done" /\ reqs[r].response.status \in {200, 500}}))
  /\ [][\A r \in 1..MaxRequests, method \in Methods :
         /\ AnsweredNow(r, method, 400) => UNCHANGED <<kvStore, kvOps>>
         /\ AnsweredNow(r, method, 500) => UNCHANGED kvStore]_vars

\* a POST without slug got 400, a GET and a POST got 500
C23_Witness ==
  /\ Answered("POST", 400) # {}
  /\ Answered("GET", 500) # {}
  /\ Answered("POST", 500) # {}
  /\ kvStore = InitialViews

----------------------------------------------------------------------------
(* Helpers of src/src/lib/utils.ts: inputs *)

\* An html text as a sequence of blocks:
\*   text: `words` words separated by single blanks, then a blank if `trail`
\*         ("Hello world. ".repeat(50) is 100 words with trail);
\*   tag : a tag such as <p> or </strong>;
\*   img : <img src="...">;
\*   pre : <pre><code> + `words` words separated by blanks + </code></pre>.
MaxBlocks == 3

WordCounts == {1, 100, 200, 600}

HtmlBlocks ==
  [kind : {"text"}, words : WordCounts, trail : BOOLEAN]
    \cup [kind : {"pre"}, words : {1, 100}, trail : {FALSE}]
    \cup [kind : {"tag", "img"}, words : {0}, trail : {FALSE}]

Htmls == SeqsUpTo(HtmlBlocks, MaxBlocks)

\* descriptions: texts over a letter and the blank, and longer ones built
\* of `lead` letters, a blank and `rest` letters
MaxDescLen == 4

letters(n) == [i \in 1..n |-> "a"]

LongDescriptions ==
  {letters(lead) \o <<" ">> \o letters(40 - lead) : lead \in {2, 10, 30}}
    \cup {letters(40)}

Descriptions == SeqsUpTo({"a", " "}, MaxDescLen) \cup LongDescriptions

\* maxLength: small ones, one above 30, and the default
DEFAULT_MAX_LENGTH == 155

MaxLengths == (0..MaxDescLen) \cup {35, DEFAULT_MAX_LENGTH}

----------------------------------------------------------------------------
(* Helpers of src/src/lib/utils.ts: the code *)

\* html.replace(/<[^>]+>/g, ""): the tags go, the text between them stays,
\* the text of a code block included
stripTags(html) ==
  SelectSeq(html, LAMBDA b : b.kind \in {"text", "pre"})

\* the runs of whitespace of a tag-free text: between the words of a block
\* and after a text block that ends with a blank (a block starts with a
\* word, so no two runs touch)
RECURSIVE whitespaceRuns(_)
whitespaceRuns(text) ==
  IF text = <<>> THEN 0
  ELSE whitespaceRuns(Tail(text)) + (Head(text).words - 1)
         + (IF Head(text).trail THEN 1 ELSE 0)

\* textOnly.split(/\s+/).length: one more piece than runs, the empty pieces
\* at the ends included; the empty text gives [""]
splitLength(text) == whitespaceRuns(text) + 1

\* x.toFixed() for x = n / 200 + 1: the nearest integer, halves upwards
toFixed0(numerator, denominator) ==
  (2 * numerator + denominator) \div (2 * denominator)

\* `${readingTimeMinutes} min read`
minRead(minutes) == <<minutes, " min read">>

readingTime(html) ==
  LET textOnly == stripTags(html)
      wordCount == splitLength(textOnly)
      readingTimeMinutes == toFixed0(wordCount + 200, 200)
  IN  minRead(readingTimeMinutes)

UtilsFrame == UNCHANGED <<listVars, searchVars, viewsVars, copyVars>>

CallReadingTime(html) ==
  /\ call.fn = "none"
  /\ call' = [fn |-> "readingTime", html |-> html,
              result |-> readingTime(html)]
  /\ UtilsFrame

\* String.prototype.slice(start, end) on a text held as a sequence of
\* characters: a negative index counts from the end, both are clamped
stringSlice(str, start, end) ==
  LET len == Len(str)
      from == IF start < 0 THEN Max(len + start, 0) ELSE Min(start, len)
      to == IF end < 0 THEN Max(len + end, 0) ELSE Min(end, len)
  IN  IF from < to THEN SubSeq(str, from + 1, to) ELSE <<>>

\* String.prototype.lastIndexOf(ch): the last 0-based index of ch, or -1
lastIndexOf(str, ch) ==
  IF \E i \in 1..Len(str) : str[i] = ch
    THEN (CHOOSE i \in 1..Len(str) :
            str[i] = ch /\ \A j \in (i + 1)..Len(str) : str[j] # ch) - 1
    ELSE -1

ellipsis == <<".", ".", ".">>

\* truncateDescription(description, maxLength = 155)
truncateDescription(description, maxLength) ==
  IF Len(description) <= maxLength THEN description
  ELSE LET truncated == stringSlice(description, 0, maxLength)
           lastSpace == lastIndexOf(truncated, " ")
       IN  IF lastSpace > maxLength - 30
             THEN stringSlice(truncated, 0, lastSpace) \o ellipsis
             ELSE truncated \o ellipsis

CallTruncateDescription(description, maxLength) ==
  /\ call.fn = "none"
  /\ call' = [fn |-> "truncateDescription", description |-> description,
              maxLength |-> maxLength,
              result |-> truncateDescription(description, maxLength)]
  /\ UtilsFrame

\* the upper-case letters and their lower-case forms
lowerOfUpper ==
  "A" :> "a" @@ "B" :> "b" @@ "C" :> "c" @@ "D" :> "d" @@ "E" :> "e" @@ "F" :> "f" @@
  "G" :> "g" @@ "H" :> "h" @@ "I" :> "i" @@ "J" :> "j" @@ "K" :> "k" @@ "L" :> "l" @@
  "M" :> "m" @@ "N" :> "n" @@ "O" :> "o" @@ "P" :> "p" @@ "Q" :> "q" @@ "R" :> "r" @@
  "S" :> "s" @@ "T" :> "t" @@ "U" :> "u" @@ "V" :> "v" @@ "W" :> "w" @@ "X" :> "x" @@
  "Y" :> "y" @@ "Z" :> "z"

\* String.prototype.toLowerCase on a text held as a sequence of characters
tagToLowerCase(tag) ==
  [i \in 1..Len(tag) |->
     IF tag[i] \in DOMAIN lowerOfUpper THEN lowerOfUpper[tag[i]] ELSE tag[i]]

\* const DEVICON_TAGS: the own properties, <<key, value>>
DEVICON_TAGS ==
  {
   <<<<"a", "s", "t", "r", "o">>, "astro/astro-original">>,
   <<<<"r", "e", "a", "c", "t">>, "react/react-original">>,
   <<<<"v", "u", "e">>, "vuejs/vuejs-original">>,
   <<<<"s", "v", "e", "l", "t", "e">>, "svelte/svelte-original">>,
   <<<<"s", "v", "e", "l", "t", "e", "k", "i", "t">>, "svelte/svelte-original">>,
   <<<<"j", "a", "v", "a", "s", "c", "r", "i", "p", "t">>, "javascript/javascript-original">>,
   <<<<"j", "s">>, "javascript/javascript-original">>,
   <<<<"t", "y", "p", "e", "s", "c", "r", "i", "p", "t">>, "typescript/typescript-original">>,
   <<<<"t", "s">>, "typescript/typescript-original">>,
   <<<<"t", "a", "i", "l", "w", "i", "n", "d">>, "tailwindcss/tailwindcss-original">>,
   <<<<"t", "a", "i", "l", "w", "i", "n", "d", "c", "s", "s">>, "tailwindcss/tailwindcss-original">>,
   <<<<"s", "o", "l", "i", "d", "j", "s">>, "solidjs/solidjs-original">>,
   <<<<"s", "o", "l", "i", "d">>, "solidjs/solidjs-original">>,
   <<<<"m", "a", "r", "k", "d", "o", "w", "n">>, "markdown/markdown-original">>,
   <<<<"m", "d">>, "markdown/markdown-original">>
  }

\* const LUCIDE_TAGS
LUCIDE_TAGS ==
  {
   <<<<"t", "u", "t", "o", "r", "i", "a", "l">>, "book-open">>,
   <<<<"b", "l", "o", "g">>, "newspaper">>,
   <<<<"a", "s", "t", "r", "o", " ", "s", "p", "h", "e", "r", "e">>, "rocket">>,
   <<<<"m", "d", "x">>, "code">>,
   <<<<"w", "e", "b", "s", "i", "t", "e", " ", "d", "e", "p", "l", "o", "y">>, "globe">>,
   <<<<"s", "t", "y", "l", "e", "x">>, "code">>
  }

\* const INVERT_ICONS
INVERT_ICONS == {<<"m", "a", "r", "k", "d", "o", "w", "n">>, <<"m", "d">>}

\* what a property read finds on Object.prototype when the object literal
\* has no own property of that name, as the template literal prints it
ObjectPrototype ==
  {<<<<"c", "o", "n", "s", "t", "r", "u", "c", "t", "o", "r">>, "function Object() { [native code] }">>,
   <<<<"_", "_", "p", "r", "o", "t", "o", "_", "_">>, "[object Object]">>}

\* the value of a property undefined
Undefined == ""

\* table[key] on an object literal: the own property, else the inherited
\* one, else undefined
propertyOf(table, key) ==
  IF \E e \in table : e[1] = key
    THEN (CHOOSE e \in table : e[1] = key)[2]
  ELSE IF \E e \in ObjectPrototype : e[1] = key
    THEN (CHOOSE e \in ObjectPrototype : e[1] = key)[2]
  ELSE Undefined

\* getTagIcon(tag); isBrandIcon FALSE stands for a result without the field
getTagIcon(tag) ==
  LET normalized == tagToLowerCase(tag)
      deviconPath == propertyOf(DEVICON_TAGS, normalized)
      lucideIcon == propertyOf(LUCIDE_TAGS, normalized)
  IN  IF deviconPath # Undefined
        THEN [src |-> <<"/devicons/", deviconPath, ".svg">>,
              needsInvert |-> normalized \in INVERT_ICONS,
              isBrandIcon |-> FALSE]
      ELSE IF lucideIcon # Undefined
        THEN [src |-> <<"/lucide/", lucideIcon, ".svg">>,
              needsInvert |-> TRUE,
              isBrandIcon |-> FALSE]
      ELSE [src |-> <<"/lucide/", "tag", ".svg">>,
            needsInvert |-> TRUE,
            isBrandIcon |-> FALSE]

\* the tags the helper is called with
TagInputs ==
  {
   <<"a", "s", "t", "r", "o">>,
   <<"r", "e", "a", "c", "t">>,
   <<"v", "u", "e">>,
   <<"s", "v", "e", "l", "t", "e">>,
   <<"s", "v", "e", "l", "t", "e", "k", "i", "t">>,
   <<"j", "a", "v", "a", "s", "c", "r", "i", "p", "t">>,
   <<"j", "s">>,
   <<"t", "y", "p", "e", "s", "c", "r", "i", "p", "t">>,
   <<"t", "s">>,
   <<"t", "a", "i", "l", "w", "i", "n", "d">>,
   <<"t", "a", "i", "l", "w", "i", "n", "d", "c", "s", "s">>,
   <<"s", "o", "l", "i", "d", "j", "s">>,
   <<"s", "o", "l", "i", "d">>,
   <<"m", "a", "r", "k", "d", "o", "w", "n">>,
   <<"m", "d">>,
   <<"t", "u", "t", "o", "r", "i", "a", "l">>,
   <<"b", "l", "o", "g">>,
   <<"a", "s", "t", "r", "o", " ", "s", "p", "h", "e", "r", "e">>,
   <<"m", "d", "x">>,
   <<"w", "e", "b", "s", "i", "t", "e", " ", "d", "e", "p", "l", "o", "y">>,
   <<"s", "t", "y", "l", "e", "x">>,
   <<"A", "s", "t", "r", "o">>,
   <<"A", "S", "T", "R", "O">>,
   <<"R", "e", "a", "c", "t">>,
   <<"T", "Y", "P", "E", "S", "C", "R", "I", "P", "T">>,
   <<"J", "S">>,
   <<"T", "s">>,
   <<"M", "D">>,
   <<"M", "a", "r", "k", "d", "o", "w", "n">>,
   <<"T", "u", "t", "o", "r", "i", "a", "l">>,
   <<"A", "s", "t", "r", "o", " ", "S", "p", "h", "e", "r", "e">>,
   <<"M", "D", "X">>,
   <<"n", "e", "x", "t", "j", "s">>,
   <<"N", "e", "x", "t", "J", "S">>,
   <<"u", "n", "k", "n", "o", "w", "n", "-", "t", "a", "g", "-", "x", "y", "z">>,
   <<"c", "o", "n", "s", "t", "r", "u", "c", "t", "o", "r">>,
   <<"C", "o", "n", "s", "t", "r", "u", "c", "t", "o", "r">>,
   <<"_", "_", "p", "r", "o", "t", "o", "_", "_">>,
   <<"t", "o", "S", "t", "r", "i", "n", "g">>,
   <<"t", "o", "s", "t", "r", "i", "n", "g">>,
   <<>>
  }

CallGetTagIcon(tag) ==
  /\ call.fn = "none"
  /\ call' = [fn |-> "getTagIcon", tag |-> tag, result |-> getTagIcon(tag)]
  /\ UtilsFrame

UtilsNext ==
  \/ \E html \in Htmls : CallReadingTime(html)
  \/ \E description \in Descriptions, maxLength \in MaxLengths :
       CallTruncateDescription(description, maxLength)
  \/ \E tag \in TagInputs : CallGetTagIcon(tag)

UtilsSpecInit ==
  /\ ListInitWith(<<>>, ITEMS_PER_PAGE)
  /\ SearchInit
  /\ OtherInit

\* one call of a helper with an input of the sets above
UtilsSpec == UtilsSpecInit /\ [][UtilsNext]_vars

----------------------------------------------------------------------------
(* Properties of the helpers, checked under UtilsSpec *)

\* the whitespace-separated words of an html text once the code blocks and
\* the tags are removed
wordsLeft(html) ==
  LET text == SelectSeq(html, LAMBDA b : b.kind = "text")
  IN  IF text = <<>> THEN 0
      ELSE whitespaceRuns(text) + 1
             - (IF text[Len(text)].trail THEN 1 ELSE 0)

\* the occurrences of <img
imagesIn(html) == Len(SelectSeq(html, LAMBDA b : b.kind = "img"))

aCodeBlock == [kind |-> "pre", words |-> 100, trail |-> FALSE]

helloWorld(words) == [kind |-> "text", words |-> words, trail |-> TRUE]

anImage == [kind |-> "img", words |-> 0, trail |-> FALSE]

\* C24 as stated: readingTime(html) is "N min read" with
\* N = ceil(w / 200 + 12 * i / 60), w the words left without code blocks and
\* tags, i the images: 100 words give 1, 600 words 3, 200 words and 2 images
\* 2, and a code block more changes nothing.
C24_ReadingTime ==
  call.fn = "readingTime" =>
    LET w == wordsLeft(call.html)
        i == imagesIn(call.html)
    IN  /\ call.result = minRead(CeilDiv(w + 40 * i, 200))
        /\ call.html = <<helloWorld(100)>> => call.result = minRead(1)
        /\ call.html = <<helloWorld(600)>> => call.result = minRead(3)
        /\ call.html = <<helloWorld(200), anImage, anImage>> =>
             call.result = minRead(2)
        /\ readingTime(Append(call.html, aCodeBlock)) = call.result

\* the part of a truncated description before the ellipsis
beforeEllipsis(result) == SubSeq(result, 1, Len(result) - 3)

\* the 0-based indices of the blanks within the first m characters
blanksWithin(d, m) == {i \in 0..(Min(m, Len(d)) - 1) : d[i + 1] = " "}

\* C25 as stated: truncateDescription(d, m) is d when len(d) <= m; otherwise
\* it ends with "...", is at most m + 3 long, and what precedes the ellipsis
\* is a prefix of d, cut at the last blank within the first m characters
\* when that blank is at an index > m - 30, at m characters otherwise.
C25_Truncate ==
  call.fn = "truncateDescription" =>
    LET d == call.description
        m == call.maxLength
        r == call.result
        blanks == blanksWithin(d, m)
        lastBlank == CHOOSE i \in blanks : \A j \in blanks : j <= i
    IN  IF Len(d) <= m THEN r = d
        ELSE /\ Len(r) >= 3
             /\ SubSeq(r, Len(r) - 2, Len(r)) = ellipsis
             /\ Len(r) <= m + 3
             /\ beforeEllipsis(r) = SubSeq(d, 1, Len(r) - 3)
             /\ Len(beforeEllipsis(r)) =
                  IF blanks # {} /\ lastBlank > m - 30 THEN lastBlank ELSE m

\* the keys of a table
keysOf(table) == {e[1] : e \in table}

TagAstro == <<"a", "s", "t", "r", "o">>

\* C26 as stated: getTagIcon is total and case-insensitive; "astro" gives
\* /brand.svg#brand with isBrandIcon; the other known dev tags give
\* /devicons/<path>.svg, inverted only for markdown / md; the aliases give
\* the src of the full name; the listed non-dev tags give their /lucide
\* icon and every other tag /lucide/tag.svg, both inverted.
C26_TagIcon ==
  call.fn = "getTagIcon" =>
    LET n == tagToLowerCase(call.tag)
        r == call.result
    IN  /\ r = getTagIcon(n)
        /\ IF n = TagAstro
             THEN r.src = <<"/brand.svg#brand">> /\ r.isBrandIcon
           ELSE IF n \in keysOf(DEVICON_TAGS)
             THEN /\ \E e \in DEVICON_TAGS :
                       e[1] = n /\ r.src = <<"/devicons/", e[2], ".svg">>
                  /\ r.needsInvert <=> n \in {<<"m", "a", "r", "k", "d", "o", "w", "n">>, <<"m", "d">>}
           ELSE IF n \in keysOf(LUCIDE_TAGS)
             THEN /\ \E e \in LUCIDE_TAGS :
                       e[1] = n /\ r.src = <<"/lucide/", e[2], ".svg">>
                  /\ r.needsInvert
           ELSE r.src = <<"/lucide/", "tag", ".svg">> /\ r.needsInvert
        /\ getTagIcon(<<"j", "s">>).src = getTagIcon(<<"j", "a", "v", "a", "s", "c", "r", "i", "p", "t">>).src
        /\ getTagIcon(<<"t", "s">>).src = getTagIcon(<<"t", "y", "p", "e", "s", "c", "r", "i", "p", "t">>).src
        /\ getTagIcon(<<"m", "d">>).src = getTagIcon(<<"m", "a", "r", "k", "d", "o", "w", "n">>).src

----------------------------------------------------------------------------
(* Copy button of the code blocks (src/public/js/copy.test.ts, 362-430) *)

\* how often the script body runs, how many clicks are made
MaxInitRuns == 2

MaxClicks == 3

\* the button as the script creates it: icon, class "copied", tooltip, and
\* the reset timeouts pending for it
newButton ==
  [href |-> "/copy.svg#empty", copied |-> FALSE, tooltip |-> "Copy",
   timers |-> 0]

CopyFrame == UNCHANGED <<listVars, searchVars, viewsVars, call>>

\* One turn of codeBlocks.forEach: a new wrapper is inserted before the pre,
\* in the parent of the pre, and the pre and a new button are moved into it;
\* the new wrapper is the innermost one.
wrapPre(wrappers) == <<newButton>> \o wrappers

\* the script body runs: every pre with a code child is wrapped
RunScript ==
  /\ initRuns < MaxInitRuns
  /\ initRuns' = initRuns + 1
  /\ codeBlocks' = [b \in 1..NumCodeBlocks |-> wrapPre(codeBlocks[b])]
  /\ lastC' = [op |-> "init", block |-> 0, wrapper |-> 0, timers |-> 0]
  /\ UNCHANGED <<clipboard, clicks>>
  /\ CopyFrame

\* copyCode up to setTimeout: the state of the clicked button
copiedButton(btn) ==
  [btn EXCEPT !.href = "/copy.svg#filled", !.copied = TRUE,
              !.tooltip = "Copied!", !.timers = @ + 1]

\* mutant: the callback leaves the class "copied"
resetButtonKeepsClass(btn) ==
  [btn EXCEPT !.href = "/copy.svg#empty", !.tooltip = "Copy",
              !.timers = @ - 1]

\* the callback of setTimeout
resetButton(btn) ==
  [btn EXCEPT !.href = "/copy.svg#empty", !.copied = FALSE,
              !.tooltip = "Copy", !.timers = @ - 1]

\* click on the button of the k-th wrapper of block b: copyCode
Click(b, k) ==
  /\ k \in 1..Len(codeBlocks[b])
  /\ clicks < MaxClicks
  /\ clicks' = clicks + 1
  /\ clipboard' = codeText(b)
  /\ codeBlocks' = [codeBlocks EXCEPT ![b][k] = copiedButton(@)]
  /\ lastC' = [op |-> "click", block |-> b, wrapper |-> k,
               timers |-> codeBlocks[b][k].timers]
  /\ UNCHANGED initRuns
  /\ CopyFrame

\* a reset timeout of the button elapses, 1500 ms after its click
TimerFire(b, k) ==
  /\ k \in 1..Len(codeBlocks[b])
  /\ codeBlocks[b][k].timers > 0
  /\ codeBlocks' = [codeBlocks EXCEPT ![b][k] = resetButton(@)]
  /\ lastC' = [op |-> "timer", block |-> b, wrapper |-> k,
               timers |-> codeBlocks[b][k].timers]
  /\ UNCHANGED <<clipboard, initRuns, clicks>>
  /\ CopyFrame

TimersFire ==
  \E b \in 1..NumCodeBlocks, k \in 1..MaxInitRuns : TimerFire(b, k)

CopyNext ==
  \/ RunScript
  \/ \E b \in 1..NumCodeBlocks, k \in 1..MaxInitRuns : Click(b, k)
  \/ TimersFire

CopySpecInit ==
  /\ ListInitWith(<<>>, ITEMS_PER_PAGE)
  /\ SearchInit
  /\ OtherInit

\* the page with its code blocks: script runs, clicks, timeouts
CopySpec == CopySpecInit /\ [][CopyNext]_vars

\* the same, every pending timeout elapsing
CopyFairSpec == CopySpec /\ WF_vars(TimersFire)

----------------------------------------------------------------------------
(* Properties of the copy button *)

\* C27 as stated: after any number of initialisation runs every code block
\* is in exactly one code-block-wrapper, which holds the pre and exactly one
\* copy button.
C27_NoDuplicates ==
  initRuns >= 1 =>
    \A b \in 1..NumCodeBlocks : Len(codeBlocks[b]) = 1

\* the buttons of the page
Buttons ==
  {bk \in (1..NumCodeBlocks) \X (1..MaxInitRuns) :
     bk[2] <= Len(codeBlocks[bk[1]])}

\* the button of a place, a button never clicked where there is none
buttonAt(bk) ==
  IF bk \in Buttons THEN codeBlocks[bk[1]][bk[2]] ELSE newButton

isInitial(btn) ==
  btn.href = "/copy.svg#empty" /\ ~btn.copied /\ btn.tooltip = "Copy"

isCopied(btn) ==
  btn.href = "/copy.svg#filled" /\ btn.copied /\ btn.tooltip = "Copied!"

\* C28: a click writes the text of the code block to the clipboard and puts
\* the button in the copied state; after the clicks, those made while a
\* reset is pending included, every button returns to the initial state.
C28_CopyThenReset ==
  /\ [](lastC.op = "click" =>
         /\ clipboard = codeText(lastC.block)
         /\ isCopied(codeBlocks[lastC.block][lastC.wrapper])
         /\ codeBlocks[lastC.block][lastC.wrapper].timers = lastC.timers + 1)
  /\ \A bk \in (1..NumCodeBlocks) \X (1..MaxInitRuns) :
       isCopied(buttonAt(bk)) ~> isInitial(buttonAt(bk))
  /\ <>[](\A bk \in Buttons :
            isInitial(buttonAt(bk)) /\ buttonAt(bk).timers = 0)

\* the last of two timeouts of a button elapsed: the second click came
\* while the first reset was pending
C28_Witness ==
  /\ lastC.op = "timer"
  /\ clicks >= 2
  /\ isInitial(codeBlocks[lastC.block][lastC.wrapper])
  /\ codeBlocks[lastC.block][lastC.wrapper].timers = 0
  /\ clipboard = codeText(lastC.block)

----------------------------------------------------------------------------
(* SearchModal: the range of selectedIndex, checked under SearchSpec *)

\* C29 as stated: in every state of the search surface selectedIndex is an
\* integer with 0 <= selectedIndex < max(1, number of results), arrow keys
\* on an empty result list included.
C29_SelectedIndexInRange ==
  /\ selectedIndex # NaN
  /\ 0 <= selectedIndex
  /\ selectedIndex < Max(1, Len(results))

----------------------------------------------------------------------------
(* highlightMatches (src/unnamed/part_005, 56-90): inputs and code *)

MaxTextLen == 3

MaxRanges == 2

\* the texts: the first n characters of a title, no character twice, so that
\* a character out of place shows
HighlightTexts ==
  {SubSeq(<<"a", "b", "c", "d", "e", "f">>, 1, n) : n \in 0..MaxTextLen}

\* the index ranges [start, end] within a text, both ends inclusive
RangesIn(text) ==
  {rg \in (0..(MaxTextLen - 1)) \X (0..(MaxTextLen - 1)) :
     rg[1] <= rg[2] /\ rg[2] < Len(text)}

MatchKeys == {"data.title", "data.summary"}

\* the values of the parameter matches for a text shown under "data.title":
\* undefined, or a list of FuseResultMatch with at most one match per key
MatchLists(text) ==
  LET titles == {[key |-> "data.title", indices |-> ix] :
                   ix \in SeqsUpTo(RangesIn(text), MaxRanges)}
      summary == [key |-> "data.summary", indices |-> << <<0, 0>> >>]
  IN  {[defined |-> FALSE, list |-> <<>>], [defined |-> TRUE, list |-> <<>>],
       [defined |-> TRUE, list |-> <<summary>>]}
        \cup {[defined |-> TRUE, list |-> <<t>>] : t \in titles}
        \cup {[defined |-> TRUE, list |-> <<summary, t>>] : t \in titles}

\* a fragment of the result: plain text or a <mark>
plain(text) == [mark |-> FALSE, text |-> text]

marked(text) == [mark |-> TRUE, text |-> text]

\* one pass of insertion for sort((a, b) => a[0] - b[0]): rg goes behind the
\* ranges that do not start after it (the sort is stable)
insertByStart(sorted, rg) ==
  LET before == SelectSeq(sorted, LAMBDA x : x[1] <= rg[1])
      after == SelectSeq(sorted, LAMBDA x : x[1] > rg[1])
  IN  before \o <<rg>> \o after

\* [...match.indices].sort((a, b) => a[0] - b[0])
RECURSIVE sortedIndicesOf(_)
sortedIndicesOf(indices) ==
  IF indices = <<>> THEN <<>>
  ELSE insertByStart(sortedIndicesOf(SubSeq(indices, 1, Len(indices) - 1)),
                     indices[Len(indices)])

\* one turn of the loop over sortedIndices
highlightStep(text, st, rg) ==
  LET start == rg[1]
      end == rg[2]
      p1 == IF start > st.lastIndex
              THEN Append(st.parts, plain(stringSlice(text, st.lastIndex, start)))
              ELSE st.parts
  IN  [parts |-> Append(p1, marked(stringSlice(text, start, end + 1))),
       lastIndex |-> end + 1]

\* the loop over the first n ranges
RECURSIVE highlightLoop(_, _, _)
highlightLoop(text, sorted, n) ==
  IF n = 0 THEN [parts |-> <<>>, lastIndex |-> 0]
  ELSE highlightStep(text, highlightLoop(text, sorted, n - 1), sorted[n])

\* highlightMatches(text, matches, key): the fragments rendered
highlightMatches(text, matches, key) ==
  IF ~matches.defined THEN <<plain(text)>>
  ELSE LET found == SelectSeq(matches.list, LAMBDA m : m.key = key)
       IN  IF found = <<>> \/ Len(found[1].indices) = 0 THEN <<plain(text)>>
           ELSE LET sortedIndices == sortedIndicesOf(found[1].indices)
                    st == highlightLoop(text, sortedIndices, Len(sortedIndices))
                IN  IF st.lastIndex < Len(text)
                      THEN Append(st.parts,
                             plain(stringSlice(text, st.lastIndex, Len(text))))
                      ELSE st.parts

\* the arguments of one call: a text, the matches of its result, a key
HighlightInputs ==
  UNION {{[fn |-> "arguments", text |-> text, matches |-> matches, key |-> key] :
            matches \in MatchLists(text), key \in MatchKeys} :
         text \in HighlightTexts}

CallHighlightMatches ==
  /\ call.fn = "arguments"
  /\ call' = [fn |-> "highlightMatches", text |-> call.text,
              matches |-> call.matches, key |-> call.key,
              result |-> highlightMatches(call.text, call.matches, call.key)]
  /\ UNCHANGED <<listVars, searchVars, viewsVars, copyVars>>

HighlightNext == CallHighlightMatches

HighlightSpecInit ==
  /\ ListInitWith(<<>>, ITEMS_PER_PAGE)
  /\ SearchInit
  /\ ViewsInit
  /\ CopyInit
  /\ call \in HighlightInputs

\* one call of highlightMatches for each input of the sets above
HighlightSpec == HighlightSpecInit /\ [][HighlightNext]_vars

----------------------------------------------------------------------------
(* Properties of highlightMatches, checked under HighlightSpec *)

\* the characters of the fragments in order, each with its highlight
RECURSIVE flatten(_)
flatten(parts) ==
  IF parts = <<>> THEN <<>>
  ELSE flatten(SubSeq(parts, 1, Len(parts) - 1))
         \o [i \in 1..Len(parts[Len(parts)].text) |->
               [ch |-> parts[Len(parts)].text[i], mark |-> parts[Len(parts)].mark]]

\* the ranges of the requested field, none without a match
rangesFor(matches, key) ==
  IF ~matches.defined THEN {}
  ELSE UNION {Range(m.indices) : m \in {x \in Range(matches.list) : x.key = key}}

\* C30 as stated: for every text and every list of in-bounds ranges of the
\* requested field, the fragments in order spell the text, no character
\* dropped or repeated, a character is highlighted iff it lies in a range,
\* and with no match the text is returned unchanged.
C30_Highlight ==
  call.fn = "highlightMatches" =>
    LET out == flatten(call.result)
        ranges == rangesFor(call.matches, call.key)
    IN  /\ Len(out) = Len(call.text)
        /\ \A i \in 1..Len(out) :
             /\ i <= Len(call.text) => out[i].ch = call.text[i]
             /\ out[i].mark <=>
                  \E rg \in ranges : rg[1] <= i - 1 /\ i - 1 <= rg[2]
        /\ ranges = {} => call.result = <<plain(call.text)>>

====
